---- MODULE Spec2Model ----
(***************************************************************************)
(* Model of app/calculator.py: the arithmetic Operation classes and the    *)
(* OperationFactory registry.  Python objects are modelled by value:       *)
(*   - a numeric result is a tagged record (int / float / complex);        *)
(*   - the outcome of a call is a record that either carries the returned  *)
(*     value or the raised exception (class and message);                  *)
(*   - an f-string / str.join result is the sequence of its parts.         *)
(* The callers of the library (construct, execute, look up, list, edit a   *)
(* returned list) are the actions.                                         *)
(***************************************************************************)
EXTENDS Integers, Sequences, FiniteSets, TLC

VARIABLES operations, op, held, last

vars == <<operations, op, held, last>>

(* ---------------------------- bounds ----------------------------------- *)

\* operands of execute range over -MaxAbs .. MaxAbs
MaxAbs == 7

\* a caller lets a returned list drift at most this far from its length
MaxDrift == 1

Operands == (0 - MaxAbs) .. MaxAbs

\* names a caller may ask for that are not keys of the table
UnknownNames == {"bogus", "Add"}

(* ------------------------ Python values -------------------------------- *)

NoValue == [t |-> "none"]

IntVal(v) == [t |-> "int", v |-> v]

\* the float nearest to the real number num / den
FloatVal(n, d) == [t |-> "float", num |-> n, den |-> d]

\* the float (or complex) value of base ** (1 / degree)
RootVal(ty, b, d) == [t |-> ty, base |-> b, degree |-> d]

Return(v) == [status |-> "ok", exc |-> "", msg |-> <<>>, value |-> v]

Raise(e, m) == [status |-> "error", exc |-> e, msg |-> m, value |-> NoValue]

\* abs() on an int
Abs(x) == IF x < 0 THEN 0 - x ELSE x

\* x ** n for an int x and an int n >= 0 (0 ** 0 is 1)
RECURSIVE IntPow(_, _)
IntPow(x, n) == IF n = 0 THEN 1 ELSE x * IntPow(x, n - 1)

\* int // int: the quotient of the magnitudes, moved down by one when the
\* signs differ and the division is not exact
PyFloorDiv(x, y) ==
  LET q == Abs(x) \div Abs(y)
      r == Abs(x) % Abs(y)
  IN  IF (x < 0) = (y < 0) THEN q
      ELSE IF r = 0 THEN 0 - q
      ELSE 0 - q - 1

\* int % int: the remainder of the magnitudes, given the sign of y
PyMod(x, y) ==
  LET r == Abs(x) % Abs(y)
  IN  IF r = 0 THEN 0
      ELSE IF (x < 0) = (y < 0) THEN (IF y < 0 THEN 0 - r ELSE r)
      ELSE IF y < 0 THEN r + y
      ELSE y - r

\* int(v) for an int v
PyInt(v) == v

\* int ** int: an int for y >= 0; for y < 0 both are converted to float and
\* float pow raises ZeroDivisionError on a zero base
PyPow(x, y) ==
  IF y >= 0 THEN Return(IntVal(IntPow(x, y)))
  ELSE IF x = 0 THEN Raise("ZeroDivisionError", <<"zero to a negative power">>)
  ELSE Return(FloatVal(1, IntPow(x, 0 - y)))

\* int ** (1 / y) for y # 0: the exponent is a float; a zero base with a
\* negative exponent raises, a negative base with a non-integral exponent
\* gives a complex number
PyPowInv(x, y) ==
  IF x = 0 /\ y < 0 THEN Raise("ZeroDivisionError", <<"zero to a negative power">>)
  ELSE IF x < 0 /\ Abs(y) # 1 THEN Return(RootVal("complex", x, y))
  ELSE Return(RootVal("float", x, y))

(* ------------------------ the operations ------------------------------- *)

Add_func(x, y) == Return(IntVal(x + y))

Subtract_func(x, y) == Return(IntVal(x - y))

Multiply_func(x, y) == Return(IntVal(x * y))

\* divide_impl without its zero check: the division itself raises
divide_impl_unchecked(x, y) ==
  IF y = 0 THEN Raise("ZeroDivisionError", <<"division by zero">>)
  ELSE Return(FloatVal(x, y))

divide_impl(x, y) ==
  IF y = 0 THEN Raise("ValueError", <<"Cannot divide by zero.">>)
  ELSE Return(FloatVal(x, y))

Power_func(x, y) == PyPow(x, y)

root_impl(x, y) ==
  IF y = 0 THEN Raise("ValueError", <<"Cannot take the root with degree zero.">>)
  ELSE PyPowInv(x, y)

\* modulus_impl with the remainder of truncated division (sign of x)
modulus_impl_truncated(x, y) ==
  IF y = 0 THEN Raise("ValueError", <<"Cannot take modulus with zero.">>)
  ELSE Return(IntVal(IF x < 0 THEN 0 - (Abs(x) % Abs(y)) ELSE Abs(x) % Abs(y)))

modulus_impl(x, y) ==
  IF y = 0 THEN Raise("ValueError", <<"Cannot take modulus with zero.">>)
  ELSE Return(IntVal(PyMod(x, y)))

\* int_divide_impl written as int(x / y): truncation toward zero
int_divide_impl_truncated(x, y) ==
  IF y = 0 THEN Raise("ValueError", <<"Cannot perform integer division by zero.">>)
  ELSE Return(IntVal(IF (x < 0) = (y < 0) THEN Abs(x) \div Abs(y)
                     ELSE 0 - (Abs(x) \div Abs(y))))

int_divide_impl(x, y) ==
  IF y = 0 THEN Raise("ValueError", <<"Cannot perform integer division by zero.">>)
  ELSE Return(IntVal(PyInt(PyFloorDiv(x, y))))

\* percentage_impl with its zero check on the first operand
percentage_impl_wrong_operand(x, y) ==
  IF x = 0 THEN Raise("ValueError", <<"Cannot calculate percentage with zero as denominator.">>)
  ELSE IF y = 0 THEN Raise("ZeroDivisionError", <<"division by zero">>)
  ELSE Return(FloatVal(x * 100, y))

percentage_impl(x, y) ==
  IF y = 0 THEN Raise("ValueError", <<"Cannot calculate percentage with zero as denominator.">>)
  ELSE Return(FloatVal(x * 100, y))

Absolute_func(x) == Return(IntVal(Abs(x)))

\* AbsoluteDifference without abs()
AbsoluteDifference_func_signed(x, y) == Return(IntVal(x - y))

AbsoluteDifference_func(x, y) == Return(IntVal(Abs(x - y)))

BinaryClasses ==
  {"Add", "Subtract", "Multiply", "Divide", "Power", "Root", "Modulus",
   "IntegerDivide", "Percentage", "AbsoluteDifference"}

UnaryClasses == {"Absolute"}

Classes == BinaryClasses \cup UnaryClasses

\* self.func of an instance of a BinaryOperation subclass, applied to (a, b)
BinaryFunc(cls, a, b) ==
  CASE cls = "Add" -> Add_func(a, b)
    [] cls = "Subtract" -> Subtract_func(a, b)
    [] cls = "Multiply" -> Multiply_func(a, b)
    [] cls = "Divide" -> divide_impl(a, b)
    [] cls = "Power" -> Power_func(a, b)
    [] cls = "Root" -> root_impl(a, b)
    [] cls = "Modulus" -> modulus_impl(a, b)
    [] cls = "IntegerDivide" -> int_divide_impl(a, b)
    [] cls = "Percentage" -> percentage_impl(a, b)
    [] cls = "AbsoluteDifference" -> AbsoluteDifference_func(a, b)

\* self.func of an instance of a UnaryOperation subclass, applied to a
UnaryFunc(cls, a) ==
  CASE cls = "Absolute" -> Absolute_func(a)

\* BinaryOperation.execute passing its arguments in the other order
BinaryOperation_execute_swapped(cls, x, y) == BinaryFunc(cls, y, x)

BinaryOperation_execute(cls, x, y) == BinaryFunc(cls, x, y)

UnaryOperation_execute(cls, x) == UnaryFunc(cls, x)

(* ------------------------ the factory ---------------------------------- *)

\* the class attribute _operations: a dict, kept in insertion order
InitialOperations ==
  << [name |-> "add", cls |-> "Add"],
     [name |-> "subtract", cls |-> "Subtract"],
     [name |-> "multiply", cls |-> "Multiply"],
     [name |-> "divide", cls |-> "Divide"],
     [name |-> "power", cls |-> "Power"],
     [name |-> "root", cls |-> "Root"],
     [name |-> "modulus", cls |-> "Modulus"],
     [name |-> "integer_divide", cls |-> "IntegerDivide"],
     [name |-> "percentage", cls |-> "Percentage"],
     [name |-> "absolute", cls |-> "Absolute"],
     [name |-> "absolute_difference", cls |-> "AbsoluteDifference"] >>

\* the keys in sorted order, as sorted(dict) gives them
SortedKeys(ops) ==
  LET order == <<"absolute", "absolute_difference", "add", "divide",
                 "integer_divide", "modulus", "multiply", "percentage",
                 "power", "root", "subtract">>
      present == {ops[i].name : i \in 1 .. Len(ops)}
  IN  SelectSeq(order, LAMBDA n : n \in present)

\* dict.keys(), in enumeration order
Keys(ops) == [i \in 1 .. Len(ops) |-> ops[i].name]

\* name in dict
Contains(ops, name) == \E i \in 1 .. Len(ops) : ops[i].name = name

\* dict[name]
Lookup(ops, name) == ops[CHOOSE i \in 1 .. Len(ops) : ops[i].name = name].cls

\* sep.join(parts), as the sequence of the pieces of the joined string
RECURSIVE Join(_, _)
Join(parts, sep) ==
  IF Len(parts) = 0 THEN <<>>
  ELSE IF Len(parts) = 1 THEN <<parts[1]>>
  ELSE <<parts[1], sep>> \o Join(Tail(parts), sep)

\* get_available_operations: a new list of the keys; the table is only read
get_available_operations(ops) ==
  [ops |-> ops, result |-> Return(Keys(ops))]

\* create_operation taking the entry out of the table (dict.pop) on a hit
create_operation_pop(ops, operation_name) ==
  [ops |-> SelectSeq(ops, LAMBDA e : e.name # operation_name),
   result |->
     IF ~Contains(ops, operation_name)
     THEN Raise("ValueError", <<"Unknown operation: ", operation_name>>)
     ELSE Raise("ValueError",
                <<"Unknown operation: ", operation_name,
                  ". Available operations: ">>
                \o Join(Keys(ops), ", "))]

\* create_operation: the membership test raises the short message; the
\* statement after it raises unconditionally, so the return that follows it
\* is never executed.  The table is only read.
create_operation(ops, operation_name) ==
  [ops |-> ops,
   result |->
     IF ~Contains(ops, operation_name)
     THEN Raise("ValueError", <<"Unknown operation: ", operation_name>>)
     ELSE Raise("ValueError",
                <<"Unknown operation: ", operation_name,
                  ". Available operations: ">>
                \o Join(get_available_operations(ops).result.value, ", "))]

(* ------------------------ state machine -------------------------------- *)

NoCall ==
  [call |-> "none", cls |-> "", name |-> "", x |-> 0, y |-> 0,
   result |-> Return(NoValue)]

Init ==
  /\ operations = InitialOperations
  /\ op = "None"
  /\ held = <<>>
  /\ last = NoCall

\* cls(): an operation class is instantiated directly
Construct(cls) ==
  /\ op' = cls
  /\ last' = [NoCall EXCEPT !.call = "construct", !.cls = cls]
  /\ UNCHANGED <<operations, held>>

\* op.execute(x, y) on an instance of a binary operation
ExecuteBinary(x, y) ==
  /\ op \in BinaryClasses
  /\ last' = [call |-> "execute", cls |-> op, name |-> "", x |-> x, y |-> y,
              result |-> BinaryOperation_execute(op, x, y)]
  /\ UNCHANGED <<operations, op, held>>

\* op.execute(x) on an instance of a unary operation
ExecuteUnary(x) ==
  /\ op \in UnaryClasses
  /\ last' = [call |-> "execute", cls |-> op, name |-> "", x |-> x, y |-> 0,
              result |-> UnaryOperation_execute(op, x)]
  /\ UNCHANGED <<operations, op, held>>

\* OperationFactory.create_operation(name); a returned instance is kept
CreateOperation(name) ==
  LET r == create_operation(operations, name)
  IN  /\ operations' = r.ops
      /\ op' = IF r.result.status = "ok" THEN r.result.value ELSE op
      /\ last' = [NoCall EXCEPT !.call = "create_operation", !.name = name,
                                !.result = r.result]
      /\ UNCHANGED held

\* OperationFactory.get_available_operations(); the caller keeps the list
GetAvailableOperations ==
  LET r == get_available_operations(operations)
  IN  /\ operations' = r.ops
      /\ held' = r.result.value
      /\ last' = [NoCall EXCEPT !.call = "get_available_operations",
                                !.result = r.result]
      /\ UNCHANGED op

\* the caller appends to the list it was given
CallerAppend(name) ==
  /\ Len(held) > 0
  /\ Len(held) < Len(InitialOperations) + MaxDrift
  /\ held' = Append(held, name)
  /\ last' = [NoCall EXCEPT !.call = "caller_append", !.name = name]
  /\ UNCHANGED <<operations, op>>

\* the caller pops the last element of the list it was given
CallerPop ==
  /\ Len(held) > 0
  /\ Len(held) > Len(InitialOperations) - MaxDrift
  /\ held' = SubSeq(held, 1, Len(held) - 1)
  /\ last' = [NoCall EXCEPT !.call = "caller_pop"]
  /\ UNCHANGED <<operations, op>>

Next ==
  \/ \E cls \in Classes : Construct(cls)
  \/ \E x \in Operands, y \in Operands : ExecuteBinary(x, y)
  \/ \E x \in Operands : ExecuteUnary(x)
  \/ \E name \in {operations[i].name : i \in 1 .. Len(operations)} \cup UnknownNames :
       CreateOperation(name)
  \/ GetAvailableOperations
  \/ \E name \in UnknownNames : CallerAppend(name)
  \/ CallerPop

Spec == Init /\ [][Next]_vars

(* ------------------------ properties ----------------------------------- *)

ZeroGuarded == {"Divide", "Root", "Modulus", "IntegerDivide", "Percentage"}

Unguarded == {"Add", "Subtract", "Multiply", "Power", "Absolute", "AbsoluteDifference"}

ZeroMessage(cls) ==
  CASE cls = "Divide" -> "Cannot divide by zero."
    [] cls = "Root" -> "Cannot take the root with degree zero."
    [] cls = "Modulus" -> "Cannot take modulus with zero."
    [] cls = "IntegerDivide" -> "Cannot perform integer division by zero."
    [] cls = "Percentage" -> "Cannot calculate percentage with zero as denominator."

TableNames ==
  <<"add", "subtract", "multiply", "divide", "power", "root", "modulus",
    "integer_divide", "percentage", "absolute", "absolute_difference">>

\* the sequence s occurs as a contiguous run of the parts of m
Lists(m, s) ==
  \E i \in 1 .. Len(m) :
    /\ i + Len(s) - 1 <= Len(m)
    /\ SubSeq(m, i, i + Len(s) - 1) = s

Executed(cls) == last.call = "execute" /\ last.cls = cls

\* C1: create_operation(name) for a name of the registry does not fail and
\* returns an instance of the class registered under that name.
C1_CreateRegistered ==
  (last.call = "create_operation" /\ last.name \in {TableNames[i] : i \in 1 .. Len(TableNames)})
    => /\ last.result.status = "ok"
       /\ last.result.value = Lookup(InitialOperations, last.name)

\* C2: create_operation(name) for a name that is not a key fails with a
\* message that names the unknown operation and lists every registered name
\* once, comma-separated, in enumeration order.
C2_UnknownListsNames ==
  (last.call = "create_operation" /\ ~Contains(InitialOperations, last.name))
    => /\ last.result.status = "error"
       /\ Lists(last.result.msg, <<last.name>>)
       /\ Lists(last.result.msg, Join(TableNames, ", "))

\* C3: Divide, Root, Modulus, IntegerDivide and Percentage fail on a zero
\* second operand with their own message, whatever x is, and no other error
\* comes out of a zero second operand.
C3_ZeroOperand ==
  (last.call = "execute" /\ last.cls \in ZeroGuarded /\ last.y = 0)
    => last.result = Raise("ValueError", <<ZeroMessage(last.cls)>>)

C3_Witness ==
  /\ Executed("Percentage") /\ last.y = 0 /\ last.x # 0
  /\ last.result.status = "error"

\* C4: get_available_operations returns exactly the 11 pairwise distinct
\* names of the table, in the table's order.
C4_AvailableOperations ==
  last.call = "get_available_operations"
    => /\ last.result.status = "ok"
       /\ last.result.value = TableNames
       /\ Len(last.result.value) = 11
       /\ \A i, j \in 1 .. Len(last.result.value) :
            i # j => last.result.value[i] # last.result.value[j]

C4_Witness ==
  /\ last.call = "get_available_operations"
  /\ held = last.result.value
  /\ Len(held) = 11

C6_FloorDivision ==
  (Executed("IntegerDivide") /\ last.y # 0)
    => /\ last.result.status = "ok"
       /\ last.result.value.t = "int"
       /\ LET q == last.result.value.v
              x == last.x
              y == last.y
          IN  /\ y > 0 => (q * y <= x /\ x < (q + 1) * y)
              /\ y < 0 => (q * y >= x /\ x > (q + 1) * y)
              /\ (x = 7 /\ y = 2) => q = 3
              /\ (x = 0 - 7 /\ y = 2) => q = 0 - 4

C6_Witness ==
  /\ Executed("IntegerDivide") /\ last.x = 0 - 7 /\ last.y = 2
  /\ last.result.value = IntVal(0 - 4)

\* C7: Add, Subtract and Multiply return x + y, x - y and x * y with the
\* arguments in the order given, and Absolute returns |x|, never negative.
C7_TableComputation ==
  /\ Executed("Add") => last.result = Return(IntVal(last.x + last.y))
  /\ Executed("Subtract") => last.result = Return(IntVal(last.x - last.y))
  /\ Executed("Multiply") => last.result = Return(IntVal(last.x * last.y))
  /\ Executed("Absolute") =>
       /\ last.result.status = "ok"
       /\ last.result.value.t = "int"
       /\ last.result.value.v >= 0
       /\ last.result.value.v \in {last.x, 0 - last.x}
       /\ last.x \in {5, 0 - 5} => last.result.value.v = 5

C7_Witness ==
  /\ Executed("Subtract") /\ last.x = 2 /\ last.y = 5
  /\ last.result.value = IntVal(0 - 3)

\* C8: AbsoluteDifference is symmetric and non-negative, equal to |x - y|,
\* and 0 exactly when x = y.
C8_AbsoluteDifference ==
  Executed("AbsoluteDifference")
    => /\ last.result.status = "ok"
       /\ last.result = BinaryOperation_execute("AbsoluteDifference", last.y, last.x)
       /\ LET v == last.result.value.v
          IN  /\ v >= 0
              /\ v \in {last.x - last.y, last.y - last.x}
              /\ (v = 0) <=> (last.x = last.y)
              /\ (last.x = 3 /\ last.y = 7) => v = 4
              /\ (last.x = 7 /\ last.y = 3) => v = 4

C8_Witness ==
  /\ Executed("AbsoluteDifference") /\ last.x = 3 /\ last.y = 7
  /\ last.result.value = IntVal(4)

\* C9: the registry is the same as at startup after any sequence of calls
\* and of caller changes to returned lists, and get_available_operations
\* keeps returning the same names in the same order.
C9_RegistryFixed ==
  /\ operations = InitialOperations
  /\ last.call = "get_available_operations" => last.result.value = Keys(InitialOperations)

\* a list was returned, the caller changed it, and a look-up was made since
C9_Witness ==
  /\ Len(held) > 0
  /\ held # Keys(InitialOperations)
  /\ last.call = "create_operation"
  /\ last.name = "add"

\* C10: x = y * IntegerDivide(x, y) + Modulus(x, y) for y # 0, and the
\* modulus is 0 or has the sign of y and a smaller magnitude than y.
C10_QuotientRemainder ==
  (last.call = "execute" /\ last.cls \in {"IntegerDivide", "Modulus"} /\ last.y # 0)
    => LET q == BinaryOperation_execute("IntegerDivide", last.x, last.y).value.v
           r == BinaryOperation_execute("Modulus", last.x, last.y).value.v
       IN  /\ last.result.value.v = (IF last.cls = "Modulus" THEN r ELSE q)
           /\ last.x = last.y * q + r
           /\ r = 0 \/ ((r < 0) = (last.y < 0) /\ Abs(r) < Abs(last.y))

C10_Witness ==
  /\ Executed("Modulus") /\ last.x = 7 /\ last.y = 0 - 2
  /\ last.result.value = IntVal(0 - 1)

====
